---------------------------- MODULE Spec2Model ----------------------------
(***************************************************************************)
(* Tempest: the button wait queue of client.go (CreateButtonMenu and the   *)
(* button branch of handleDiscordWebhookRequests) and the rate-limit-aware *)
(* REST transport of rest.go (Rest.Request, Rest.handleRequest).           *)
(*                                                                         *)
(* Every goroutine of the program is a process of the model: one per call  *)
(* of CreateButtonMenu (with the timer goroutine time.AfterFunc starts),   *)
(* one per webhook request, one per call of Rest.Request.  A step is one   *)
(* statement, or one run of statements no other goroutine can observe.     *)
(* Time is counted in whole seconds: a running timer holds the seconds it  *)
(* still has to run, and the REST transport reads a clock.                 *)
(***************************************************************************)
EXTENDS Integers, Sequences, FiniteSets, TLC

(***************************************************************************)
(* Bounds of the model.                                                    *)
(***************************************************************************)
\* The clock stops at MaxTime seconds.
MaxTime == 4
\* The retry_after of a 429 body, in whole seconds, is at most this.
MaxRetryAfter == 1

\* The goroutines calling CreateButtonMenu, the webhook requests and the
\* goroutines calling Rest.Request.
Menus == {1, 2}
Clicks == {"c1", "c2"}
Callers == {"r1", "r2"}

\* The custom ids buttons carry, and the id lists a menu is armed with.
Keys == {"k1", "k2"}
KeyLists == {<<"k1">>, <<"k2">>, <<"k1", "k2">>}
\* The timeouts CreateButtonMenu is called with, in seconds.
Timeouts == {1, 4}

\* The calls of RegisterCommand and RegisterSubCommand before the server
\* starts are at most this many.
MaxRegistrations == 2

\* The names of root commands and of subcommands, the key a root command has
\* in its own tree, and the shapes of the commands the application registers.
Names == {"a", "b"}
SubNames == {"s"}
RootKey == "-"
TreeKeys == {RootKey} \cup SubNames
CommandShapes ==
    { [AvailableInDM |-> TRUE,  Options |-> "nil",  AutoComplete |-> FALSE],
      [AvailableInDM |-> FALSE, Options |-> "some", AutoComplete |-> TRUE],
      [AvailableInDM |-> TRUE,  Options |-> "nil",  AutoComplete |-> TRUE] }

\* The component and modal requests that find no permanent handler, and the
\* capacities of the channel a waiter makes (0: the channel has no buffer).
Requests == {"q1", "q2"}
Capacities == {0, 1}

\* The options the application constructs the client with.
ClientOptions ==
    [InteractionHandler : {"nil", "set"},
     PreCommandExecutionHandler : {"nil", "answers", "declines"}]

\* A webhook request: the handler that serves it, whether it passes the
\* checks of method, signature and body, the interaction it carries, and what
\* the handler meets while it serves it (the tables of the client, whether a
\* waiter receives on the channel, whether the handler's result marshals).
Handlers == {"old", "new"}
NoInput ==
    [handler |-> "old", pre |-> "ok", Type |-> "PING", Name |-> "a", sub |-> "",
     GuildID |-> 1, ComponentType |-> "BUTTON", exists |-> FALSE,
     permanent |-> "absent", queued |-> "absent", fallback |-> "nil",
     middleware |-> "nil", receiving |-> FALSE, marshals |-> TRUE]
Inputs ==
    {[NoInput EXCEPT !.handler = h, !.pre = p] :
        h \in Handlers, p \in {"notPost", "unverified", "badBody"}}
    \cup {[NoInput EXCEPT !.handler = h, !.Type = t] :
        h \in Handlers, t \in {"PING", "OTHER"}}
    \cup {[NoInput EXCEPT !.Type = "APPLICATION_COMMAND", !.Name = n, !.sub = s,
                          !.GuildID = g] :
        n \in Names, s \in {""} \cup SubNames, g \in {0, 1}}
    \cup {[NoInput EXCEPT !.handler = "new", !.Type = "APPLICATION_COMMAND",
                          !.Name = n, !.sub = s, !.GuildID = g, !.middleware = m] :
        n \in Names, s \in {""} \cup SubNames, g \in {0, 1},
        m \in {"nil", "allows", "denies"}}
    \cup {[NoInput EXCEPT !.handler = h, !.Type = "AUTO_COMPLETE", !.Name = n,
                          !.sub = s, !.marshals = j] :
        h \in Handlers, n \in Names, s \in {""} \cup SubNames, j \in BOOLEAN}
    \cup {[NoInput EXCEPT !.Type = "MESSAGE_COMPONENT", !.ComponentType = t,
                          !.exists = e] :
        t \in {"BUTTON", "SELECT"}, e \in BOOLEAN}
    \cup {[NoInput EXCEPT !.Type = "MODAL_SUBMIT"]}
    \cup {[NoInput EXCEPT !.handler = "new", !.Type = t, !.permanent = p,
                          !.queued = q, !.fallback = f, !.receiving = r] :
        t \in {"MESSAGE_COMPONENT", "MODAL_SUBMIT"},
        p \in {"absent", "nil", "fn"}, q \in {"absent", "nil", "chan"},
        f \in {"nil", "fn"}, r \in BOOLEAN}

\* What a caller passes to Request: the payload (nil, a value that marshals,
\* a value that does not) and whether http.NewRequest accepts method and route.
Payloads == {"nil", "json", "unmarshalable"}
\* What an underlying HTTP call yields: a transport error, or a response with
\* a status and a body that can be read or not; a 429 body carries retry_after.
Statuses == {200, 204, 399, 400, 429, 500}
Bodies == {"b1", "b2"}
Outcomes ==
    {[kind |-> "error", status |-> 0, readOk |-> FALSE, body |-> "", retryAfter |-> 0]}
    \cup {[kind |-> "response", status |-> 204, readOk |-> TRUE, body |-> "", retryAfter |-> 0]}
    \cup {[kind |-> "response", status |-> st, readOk |-> FALSE, body |-> "", retryAfter |-> 0] :
             st \in Statuses \ {204}}
    \cup {[kind |-> "response", status |-> st, readOk |-> TRUE, body |-> b, retryAfter |-> 0] :
             st \in Statuses \ {204, 429}, b \in Bodies}
    \cup {[kind |-> "response", status |-> 429, readOk |-> TRUE, body |-> "b1", retryAfter |-> ra] :
             ra \in 0 .. MaxRetryAfter}

(***************************************************************************)
(* Program constants.                                                      *)
(***************************************************************************)
\* client.go:42-43, time.Second*3: the ceiling of a menu's timeout.
MenuTimeoutCap == 3
\* rest.go:38, the bound of the retry loop: for i := 1; i < 3; i++.
RetryLoopBound == 3
\* rest.go:104, the seconds added to retry_after.
LockoutMargin == 5

\* No menu (an absent map entry), and the zero time.Time.
NoMenu == 0
ZeroTime == 0

VARIABLES
    now,            \* the clock, in seconds since the process started (>= 1)
    queuedButtons,  \* client.queuedButtons: key -> the menu (anchor) it maps to
    menu,           \* per call of CreateButtonMenu: its locals, its timer and position
    handlerLog,     \* per menu: the calls of its handler, in order
    click,          \* per webhook request: its locals and position
    lockedTo,       \* Rest.lockedTo
    readers,        \* Rest.mu: the read locks held
    writer,         \* Rest.mu: the goroutine that called Lock, if any
    call,           \* per call of Rest.Request: its locals and position
    commands,       \* client.commands: root name -> sub name -> command
    phase,          \* the program: registering commands, serving, or panicked
    registrations,  \* the calls of RegisterCommand and RegisterSubCommand so far
    lastRegister,   \* the last such call: its arguments and the registry before it
    options,        \* the ClientOptions handed to the constructor
    req,            \* the webhook request the router handles: inputs, position, trace
    queuedComponents, \* client.queuedComponents / queuedModals: key -> channel
    qReaders,       \* client.qMu: the read locks held
    waiter,         \* the goroutine that armed the keys and waits on the channel
    signalChannel,  \* the events in the buffer of the waiter's channel
    itx             \* per component or modal request: its locals and position

vars == <<now, queuedButtons, menu, handlerLog, click, lockedTo, readers, writer, call,
          commands, phase, registrations, lastRegister, options, req,
          queuedComponents, qReaders, waiter, signalChannel, itx>>
buttonVars == <<queuedButtons, menu, handlerLog, click>>
restVars == <<lockedTo, readers, writer, call>>
routerVars == <<commands, phase, registrations, lastRegister, options, req>>
handOffVars == <<queuedComponents, qReaders, waiter, signalChannel, itx>>

(***************************************************************************)
(* Time.                                                                   *)
(***************************************************************************)
\* A second passes for the running timers of the menus (a timer that has run
\* out and whose goroutine has not started yet stays at 0).
TimerTick ==
    /\ \E m \in Menus : menu[m].pc = "armed" /\ menu[m].timeout > 0
    /\ menu' = [m \in Menus |->
                  IF menu[m].pc = "armed" /\ menu[m].timeout > 0
                  THEN [menu[m] EXCEPT !.timeout = @ - 1] ELSE menu[m]]
    /\ UNCHANGED <<now, queuedButtons, handlerLog, click, restVars, routerVars, handOffVars>>

\* A second passes on the clock the REST transport reads.
Tick ==
    /\ now < MaxTime
    /\ now' = now + 1
    /\ UNCHANGED <<buttonVars, restVars, routerVars, handOffVars>>

(***************************************************************************)
(* client.go: CreateButtonMenu.                                            *)
(*                                                                         *)
(* client.queuedButtons is a plain map that the arming goroutines, the     *)
(* timer goroutines and the request goroutines read and write with no     *)
(* lock.  Each map operation is one step here, and the steps interleave    *)
(* freely; the runs in which two overlapping map operations make the Go    *)
(* runtime abort the process are not part of the model.                    *)
(***************************************************************************)
\* client.go:42-44: a timeout above three seconds is cut to three seconds.
ClampTimeout(timeout) ==
    IF MenuTimeoutCap < timeout THEN MenuTimeoutCap ELSE timeout

\* Whether menu m's timeout has elapsed: its timer has run out.
Elapsed(m) ==
    \/ menu[m].pc \in {"expire", "done"}
    \/ menu[m].pc = "armed" /\ menu[m].timeout = 0

\* A call handler(arg) of menu m's handler; arg is "nil" or "event".  The log
\* keeps whether the timeout had elapsed when the call was made.
Invoke(m, arg) ==
    [handlerLog EXCEPT ![m] = Append(@, [arg |-> arg, elapsed |-> Elapsed(m)])]

\* client.go:41-49: the call, the clamp and the anchor.
CreateButtonMenu(m) ==
    /\ menu[m].pc = "idle"
    /\ \E ids \in KeyLists, timeout \in Timeouts :
          menu' = [menu EXCEPT ![m] = [pc |-> "insert", CustomIds |-> ids,
                                       timeout |-> ClampTimeout(timeout), idx |-> 1]]
    /\ UNCHANGED <<now, queuedButtons, handlerLog, click, restVars, routerVars, handOffVars>>

\* client.go:51-53: one turn of the loop, client.queuedButtons[key] = &anchor.
InsertKey(m) ==
    /\ menu[m].pc = "insert"
    /\ menu[m].idx <= Len(menu[m].CustomIds)
    /\ queuedButtons' = [queuedButtons EXCEPT ![menu[m].CustomIds[menu[m].idx]] = m]
    /\ menu' = [menu EXCEPT ![m].idx = @ + 1]
    /\ UNCHANGED <<now, handlerLog, click, restVars, routerVars, handOffVars>>

\* client.go:55: time.AfterFunc(timeout, ...) starts the timer; the call returns.
StartTimer(m) ==
    /\ menu[m].pc = "insert"
    /\ menu[m].idx > Len(menu[m].CustomIds)
    /\ menu' = [menu EXCEPT ![m].pc = "armed"]
    /\ UNCHANGED <<now, queuedButtons, handlerLog, click, restVars, routerVars, handOffVars>>

\* The timer fires: its goroutine starts once the timeout has elapsed.
TimerFire(m) ==
    /\ menu[m].pc = "armed"
    /\ menu[m].timeout = 0
    /\ menu' = [menu EXCEPT ![m].pc = "expire", ![m].idx = 1]
    /\ UNCHANGED <<now, queuedButtons, handlerLog, click, restVars, routerVars, handOffVars>>

\* client.go:56-58: one turn of the timer's loop, delete(client.queuedButtons, key).
ExpireDelete(m) ==
    /\ menu[m].pc = "expire"
    /\ menu[m].idx <= Len(menu[m].CustomIds)
    /\ queuedButtons' = [queuedButtons EXCEPT ![menu[m].CustomIds[menu[m].idx]] = NoMenu]
    /\ menu' = [menu EXCEPT ![m].idx = @ + 1]
    /\ UNCHANGED <<now, handlerLog, click, restVars, routerVars, handOffVars>>

\* client.go:59: handler(nil).
ExpireNotify(m) ==
    /\ menu[m].pc = "expire"
    /\ menu[m].idx > Len(menu[m].CustomIds)
    /\ handlerLog' = Invoke(m, "nil")
    /\ menu' = [menu EXCEPT ![m].pc = "done"]
    /\ UNCHANGED <<now, queuedButtons, click, restVars, routerVars, handOffVars>>

(***************************************************************************)
(* client.go: handleDiscordWebhookRequests, MESSAGE_COMPONENT_TYPE with    *)
(* COMPONENT_BUTTON.                                                       *)
(***************************************************************************)
\* client.go:283: queue, exists := client.queuedButtons[interaction.Data.CustomId],
\* for a verified button interaction carrying custom id key.
Lookup(c) ==
    /\ click[c].pc = "idle"
    /\ \E key \in Keys :
          click' = [click EXCEPT ![c] =
                      [pc |-> IF queuedButtons[key] # NoMenu THEN "deliver" ELSE "respond",
                       key |-> key, queue |-> queuedButtons[key], idx |-> 1]]
    /\ UNCHANGED <<now, queuedButtons, menu, handlerLog, restVars, routerVars, handOffVars>>

\* client.go:285-287: queue.Handler(&ctx).
Deliver(c) ==
    /\ click[c].pc = "deliver"
    /\ handlerLog' = Invoke(click[c].queue, "event")
    /\ click' = [click EXCEPT ![c].pc = "delete"]
    /\ UNCHANGED <<now, queuedButtons, menu, restVars, routerVars, handOffVars>>

\* client.go:289-291: one turn of the loop over queue.CustomIds,
\* delete(client.queuedButtons, key).
DeleteKey(c) ==
    /\ click[c].pc = "delete"
    /\ LET ids == menu[click[c].queue].CustomIds
       IN  /\ click[c].idx <= Len(ids)
           /\ queuedButtons' = [queuedButtons EXCEPT ![ids[click[c].idx]] = NoMenu]
           /\ click' = [click EXCEPT ![c].idx = @ + 1,
                                     ![c].pc = IF click[c].idx = Len(ids) THEN "respond" ELSE "delete"]
    /\ UNCHANGED <<now, menu, handlerLog, restVars, routerVars, handOffVars>>

\* client.go:294-298: the fallback handler, w.WriteHeader(204), return.
Respond(c) ==
    /\ click[c].pc = "respond"
    /\ click' = [click EXCEPT ![c].pc = "done"]
    /\ UNCHANGED <<now, queuedButtons, menu, handlerLog, restVars, routerVars, handOffVars>>

(***************************************************************************)
(* rest.go: the results of Request and handleRequest.                      *)
(***************************************************************************)
NoError == [kind |-> "nil", status |-> 0, body |-> ""]
Failure(kind) == [kind |-> kind, status |-> 0, body |-> ""]
NoResult == [raw |-> "none", err |-> NoError]

\* ResponseResult with the transport error finished, the cause returned.
ResponseResultErrorFinished(o) ==
    IF o.kind = "error"
    THEN [raw |-> "nil", err |-> Failure("process"), finished |-> TRUE]
    ELSE IF o.status = 204
    THEN [raw |-> "nil", err |-> NoError, finished |-> TRUE]
    ELSE IF ~o.readOk
    THEN [raw |-> "nil", err |-> Failure("readbody"), finished |-> TRUE]
    ELSE IF o.status >= 400
    THEN [raw |-> "nil", finished |-> TRUE,
          err |-> [kind |-> "status", status |-> o.status, body |-> o.body]]
    ELSE [raw |-> o.body, err |-> NoError, finished |-> TRUE]

\* ResponseResult with the status test off by one: > 400 for >= 400.
ResponseResultAbove400(o) ==
    IF o.kind = "error"
    THEN [raw |-> "nil", err |-> Failure("process"), finished |-> FALSE]
    ELSE IF o.status = 204
    THEN [raw |-> "nil", err |-> NoError, finished |-> TRUE]
    ELSE IF ~o.readOk
    THEN [raw |-> "nil", err |-> Failure("readbody"), finished |-> TRUE]
    ELSE IF o.status > 400
    THEN [raw |-> "nil", finished |-> TRUE,
          err |-> [kind |-> "status", status |-> o.status, body |-> o.body]]
    ELSE [raw |-> o.body, err |-> NoError, finished |-> TRUE]

\* rest.go:85-118 without the 429 branch: what handleRequest returns for the
\* outcome o of httpClient.Do, as (raw, err, finished).
ResponseResult(o) ==
    IF o.kind = "error"
    THEN [raw |-> "nil", err |-> Failure("process"), finished |-> FALSE]      \* 86-88
    ELSE IF o.status = 204
    THEN [raw |-> "nil", err |-> NoError, finished |-> TRUE]                  \* 90-92
    ELSE IF ~o.readOk
    THEN [raw |-> "nil", err |-> Failure("readbody"), finished |-> TRUE]      \* 94-97
    ELSE IF o.status >= 400
    THEN [raw |-> "nil", finished |-> TRUE,
          err |-> [kind |-> "status", status |-> o.status, body |-> o.body]]  \* 114-116
    ELSE [raw |-> o.body, err |-> NoError, finished |-> TRUE]                 \* 118

\* rest.go:99: the outcome takes the rate-limit branch.
IsRateLimit(o) ==
    o.kind = "response" /\ o.status # 204 /\ o.readOk /\ o.status = 429

\* rest.go:38: the loop runs while i < 3.
LoopRuns(i) == i < RetryLoopBound

\* rest.go:43: time.Sleep(time.Microsecond * time.Duration(250*i)), in the
\* clock's whole seconds.
BackoffSeconds(i) == (250 * i) \div 1000000

(***************************************************************************)
(* rest.go: Rest.mu, a sync.RWMutex.  RLock waits while a goroutine has    *)
(* called Lock; Lock waits for the other writers, then for the read locks  *)
(* held to be released.                                                    *)
(***************************************************************************)
CanRLock == writer = "none"
CanLock == writer = "none"
LockGranted(r) == writer = r /\ readers = 0

(***************************************************************************)
(* rest.go: Rest.Request.                                                  *)
(***************************************************************************)
\* A goroutine calls Request(method, route, jsonPayload).
Request(r) ==
    /\ call[r].pc = "idle"
    /\ \E p \in Payloads, v \in BOOLEAN :
          call' = [call EXCEPT ![r].pc = "enter", ![r].payload = p, ![r].valid = v]
    /\ UNCHANGED <<now, buttonVars, routerVars, handOffVars, lockedTo, readers, writer>>

\* rest.go:29-36: RLock; with a deadline set, read it, RUnlock and sleep the
\* time left; with none set the read lock is kept.
Enter(r) ==
    /\ call[r].pc = "enter"
    /\ CanRLock
    /\ IF lockedTo # ZeroTime
       THEN /\ readers' = readers
            /\ call' = [call EXCEPT ![r].gate = lockedTo,
                                    ![r].pc = IF lockedTo - now > 0 THEN "sleep" ELSE "loop",
                                    ![r].wakeAt = IF lockedTo - now > 0 THEN lockedTo ELSE @,
                                    ![r].after = IF lockedTo - now > 0 THEN "loop" ELSE @]
       ELSE /\ readers' = readers + 1
            /\ call' = [call EXCEPT ![r].rlocks = @ + 1, ![r].pc = "loop"]
    /\ UNCHANGED <<now, buttonVars, routerVars, handOffVars, lockedTo, writer>>

\* rest.go:38 and 46: the loop is over, the terminal error is returned.
Exhausted(r) ==
    /\ call[r].pc = "loop"
    /\ ~LoopRuns(call[r].i)
    /\ call' = [call EXCEPT ![r].pc = "done",
                            ![r].result = [raw |-> "nil", err |-> Failure("exhausted")]]
    /\ UNCHANGED <<now, buttonVars, routerVars, handOffVars, lockedTo, readers, writer>>

\* rest.go:39-41 with 58-61: the payload does not marshal; finished, with the error.
MarshalFail(r) ==
    /\ call[r].pc = "loop"
    /\ LoopRuns(call[r].i)
    /\ call[r].payload = "unmarshalable"
    /\ call' = [call EXCEPT ![r].pc = "done", ![r].attempts = @ + 1,
                            ![r].result = [raw |-> "nil", err |-> Failure("marshal")]]
    /\ UNCHANGED <<now, buttonVars, routerVars, handOffVars, lockedTo, readers, writer>>

\* rest.go:39 with 52-55 and 63-77: http.NewRequest fails; not finished.
NewRequestFail(r) ==
    /\ call[r].pc = "loop"
    /\ LoopRuns(call[r].i)
    /\ call[r].payload # "unmarshalable"
    /\ ~call[r].valid
    /\ call' = [call EXCEPT ![r].pc = "backoff", ![r].attempts = @ + 1]
    /\ UNCHANGED <<now, buttonVars, routerVars, handOffVars, lockedTo, readers, writer>>

\* rest.go:39 with 81-85: the request is built and httpClient.Do is called.
Do(r) ==
    /\ call[r].pc = "loop"
    /\ LoopRuns(call[r].i)
    /\ call[r].payload # "unmarshalable"
    /\ call[r].valid
    /\ call' = [call EXCEPT ![r].pc = "http", ![r].attempts = @ + 1, ![r].calls = @ + 1]
    /\ UNCHANGED <<now, buttonVars, routerVars, handOffVars, lockedTo, readers, writer>>

\* rest.go:85-98, 114-118 with 40-42: Do returns an outcome that is no 429;
\* finished, Request returns it; not finished, Request goes on to its sleep.
Response(r) ==
    /\ call[r].pc = "http"
    /\ \E o \in Outcomes :
          /\ ~IsRateLimit(o)
          /\ LET res == ResponseResult(o)
             IN  call' = [call EXCEPT
                    ![r].hist = Append(@, o),
                    ![r].pc = IF res.finished THEN "done" ELSE "backoff",
                    ![r].result = IF res.finished THEN [raw |-> res.raw, err |-> res.err] ELSE @]
    /\ UNCHANGED <<now, buttonVars, routerVars, handOffVars, lockedTo, readers, writer>>

\* rest.go:99-101: Do returns a 429 whose body was read; retry_after is parsed.
RateLimited(r) ==
    /\ call[r].pc = "http"
    /\ \E o \in Outcomes :
          /\ IsRateLimit(o)
          /\ call' = [call EXCEPT ![r].hist = Append(@, o), ![r].pc = "lock",
                                  ![r].retryAfter = o.retryAfter]
    /\ UNCHANGED <<now, buttonVars, routerVars, handOffVars, lockedTo, readers, writer>>

\* rest.go:103 and 110: rest.mu.Lock() is called; from here RLock waits.
Lock(r) ==
    /\ call[r].pc \in {"lock", "relock"}
    /\ CanLock
    /\ writer' = r
    /\ call' = [call EXCEPT ![r].pc = IF @ = "lock" THEN "lockwait" ELSE "relockwait"]
    /\ UNCHANGED <<now, buttonVars, routerVars, handOffVars, lockedTo, readers>>

\* rest.go:103-108: Lock returns; lockedTo = now + retry_after + 5; Unlock;
\* sleep until then.
SetLockout(r) ==
    /\ call[r].pc = "lockwait"
    /\ LockGranted(r)
    /\ lockedTo' = now + call[r].retryAfter + LockoutMargin
    /\ writer' = "none"
    /\ call' = [call EXCEPT ![r].pc = "sleep", ![r].after = "relock",
                            ![r].wakeAt = now + call[r].retryAfter + LockoutMargin]
    /\ UNCHANGED <<now, buttonVars, routerVars, handOffVars, readers>>

\* rest.go:110-113: Lock returns; lockedTo = time.Time{}; Unlock; handleRequest
\* returns (nil, "rate limit", false).
ClearLockout(r) ==
    /\ call[r].pc = "relockwait"
    /\ LockGranted(r)
    /\ lockedTo' = ZeroTime
    /\ writer' = "none"
    /\ call' = [call EXCEPT ![r].pc = "backoff"]
    /\ UNCHANGED <<now, buttonVars, routerVars, handOffVars, readers>>

\* rest.go:43: the sleep between two turns of the loop.
Backoff(r) ==
    /\ call[r].pc = "backoff"
    /\ call' = [call EXCEPT ![r].pc = "sleep", ![r].after = "next",
                            ![r].wakeAt = now + BackoffSeconds(call[r].i)]
    /\ UNCHANGED <<now, buttonVars, routerVars, handOffVars, lockedTo, readers, writer>>

\* time.Sleep returns (rest.go:34, 43, 108); after the sleep of line 43, i++.
Wake(r) ==
    /\ call[r].pc = "sleep"
    /\ now >= call[r].wakeAt
    /\ call' = [call EXCEPT ![r].pc = IF call[r].after = "next" THEN "loop" ELSE call[r].after,
                            ![r].i = IF call[r].after = "next" THEN @ + 1 ELSE @,
                            ![r].after = "none", ![r].wakeAt = ZeroTime]
    /\ UNCHANGED <<now, buttonVars, routerVars, handOffVars, lockedTo, readers, writer>>

(***************************************************************************)
(* The command registry of client.go: RegisterCommand, RegisterSubCommand  *)
(* and getCommand.  A root name maps to a tree of commands; the root       *)
(* command itself sits in its tree under the key "-".                      *)
(***************************************************************************)
\* A command as the registry holds it.  Options is nil, an empty slice or a
\* slice with options; AutoComplete tells whether AutoCompleteHandler is set.
NoCommand ==
    [present |-> FALSE, Name |-> "", AvailableInDM |-> FALSE, Options |-> "nil",
     AutoComplete |-> FALSE]

Command(name, shape) ==
    [present |-> TRUE, Name |-> name, AvailableInDM |-> shape.AvailableInDM,
     Options |-> shape.Options, AutoComplete |-> shape.AutoComplete]

RootCommands == {Command(n, s) : n \in Names, s \in CommandShapes}
SubCommands == {Command(n, s) : n \in SubNames, s \in CommandShapes}

\* make(map[string]Command): a tree without entries.
EmptyTree == [s \in TreeKeys |-> NoCommand]
NoTree == [present |-> FALSE, tree |-> EmptyTree]

\* command.Options = []Option{} when it is nil.
WithOptions(command) ==
    IF command.Options = "nil" THEN [command EXCEPT !.Options = "empty"] ELSE command

\* RegisterCommand without the test of line 149: the command replaces the
\* tree of a root that is registered already.
RegisterCommandOverwrites(command) ==
    /\ phase = "registering"
    /\ registrations < MaxRegistrations
    /\ registrations' = registrations + 1
    /\ lastRegister' = [op |-> "RegisterCommand", command |-> command,
                        root |-> command.Name]
    /\ commands' = [commands EXCEPT ![command.Name] =
                       [present |-> TRUE,
                        tree |-> [EmptyTree EXCEPT ![RootKey] = WithOptions(command)]]]
    /\ phase' = phase
    /\ UNCHANGED <<now, buttonVars, restVars, handOffVars, options, req>>

\* RegisterCommand(command): a new root gets a tree holding the command under
\* "-"; a root that is registered already makes the call panic.
RegisterCommand(command) ==
    /\ phase = "registering"
    /\ registrations < MaxRegistrations
    /\ registrations' = registrations + 1
    /\ lastRegister' = [op |-> "RegisterCommand", command |-> command,
                        root |-> command.Name]
    /\ IF ~commands[command.Name].present
       THEN /\ commands' = [commands EXCEPT ![command.Name] =
                               [present |-> TRUE,
                                tree |-> [EmptyTree EXCEPT ![RootKey] = WithOptions(command)]]]
            /\ phase' = phase
       ELSE /\ phase' = "panicked"
            /\ commands' = commands
    /\ UNCHANGED <<now, buttonVars, restVars, handOffVars, options, req>>

\* RegisterSubCommand(subCommand, rootCommandName): the subcommand goes into
\* the tree of a registered root under its own name; a root that is not
\* registered makes the call panic.
RegisterSubCommand(subCommand, rootCommandName) ==
    /\ phase = "registering"
    /\ registrations < MaxRegistrations
    /\ registrations' = registrations + 1
    /\ lastRegister' = [op |-> "RegisterSubCommand", command |-> subCommand,
                        root |-> rootCommandName]
    /\ IF commands[rootCommandName].present
       THEN /\ commands' = [commands EXCEPT
                               ![rootCommandName].tree[subCommand.Name] = subCommand]
            /\ phase' = phase
       ELSE /\ phase' = "panicked"
            /\ commands' = commands
    /\ UNCHANGED <<now, buttonVars, restVars, handOffVars, options, req>>

\* A lookup that falls back to the root command when the subcommand the
\* interaction names is not in the tree.
getCommandRootFallback(cmds, data) ==
    LET named == cmds[data.Name].tree[IF data.sub # "" THEN data.sub ELSE RootKey]
        command == IF named.present THEN named ELSE cmds[data.Name].tree[RootKey]
    IN  IF ~command.present THEN [command |-> NoCommand, exists |-> FALSE]
        ELSE [command |-> command, exists |-> TRUE]

\* getCommand(interaction): data.Name is the name the interaction carries and
\* data.sub the name of its first option when that option is marked as a
\* subcommand ("" otherwise).  The result is the command and whether it exists.
getCommand(cmds, data) ==
    IF data.sub # ""
    THEN LET command == cmds[data.Name].tree[data.sub]
         IN  IF ~command.present THEN [command |-> NoCommand, exists |-> FALSE]
             ELSE [command |-> command, exists |-> TRUE]
    ELSE LET command == cmds[data.Name].tree[RootKey]
         IN  IF ~command.present THEN [command |-> NoCommand, exists |-> FALSE]
             ELSE [command |-> command, exists |-> TRUE]

(***************************************************************************)
(* The webhook handlers: handleDiscordWebhookRequests of client.go and     *)
(* handleRequest of the later client.  req.trace is what the handler did   *)
(* for the request, in order: the writes to the http.ResponseWriter and    *)
(* the calls of the application's handlers.                                *)
(***************************************************************************)
\* w.Write(body), w.WriteHeader(code), http.Error(w, text, code), the call
\* of a handler, and a panic of the handler's goroutine.
Write(body) == [kind |-> "Write", what |-> body, name |-> ""]
WriteHeader(code) == [kind |-> "WriteHeader", what |-> code, name |-> ""]
Error(code) == [kind |-> "Error", what |-> code, name |-> ""]
Call(handler) == [kind |-> "Call", what |-> handler, name |-> ""]
SlashCommandHandler(command) ==
    [kind |-> "Call", what |-> "SlashCommandHandler", name |-> command.Name]
AutoCompleteHandler(command) ==
    [kind |-> "Call", what |-> "AutoCompleteHandler", name |-> command.Name]
Panic == [kind |-> "panic", what |-> "", name |-> ""]

\* The fields CreateClient gives the client: InteractionHandler is copied
\* from the options, preCommandExecutionHandler is left out of the struct
\* literal and so is nil.  A handler that is not nil either answers the
\* request with a payload or declines with nil.
interactionHandler == options.InteractionHandler
preCommandExecutionHandler == "nil"

\* The checks both handlers start with: method, signature, body.
Preamble(in) ==
    IF in.pre = "notPost" THEN <<Error("405")>>
    ELSE IF in.pre = "unverified" THEN <<Error("401")>>
    ELSE IF in.pre = "badBody" THEN <<Error("400"), Panic>>
    ELSE <<>>

\* terminateCommandInteraction(w): the fixed "unknown command" payload.
terminateCommandInteraction == <<Write("unknown command")>>

\* client.interactionHandler(interaction) when the handler is not nil.
Unhandled ==
    IF interactionHandler # "nil" THEN <<Call("interactionHandler")>> ELSE <<>>

\* case APPLICATION_COMMAND_TYPE of handleDiscordWebhookRequests.
OldCommand(in) ==
    LET found == getCommand(commands, in)
        ctx == found.command
    IN  IF ~found.exists THEN terminateCommandInteraction
        ELSE IF in.GuildID = 0 /\ ~ctx.AvailableInDM THEN <<WriteHeader("204")>>
        ELSE IF preCommandExecutionHandler = "answers"
        THEN <<Call("preCommandExecutionHandler")>>
             \o (IF in.marshals THEN <<Write("content")>> ELSE <<Panic>>)
        ELSE (IF preCommandExecutionHandler # "nil"
              THEN <<Call("preCommandExecutionHandler")>> ELSE <<>>)
             \o <<WriteHeader("204"), SlashCommandHandler(ctx)>>

\* case MESSAGE_COMPONENT_TYPE of handleDiscordWebhookRequests; in.exists is
\* what the lookup of the custom id in client.queuedButtons yields.
OldComponent(in) ==
    IF in.ComponentType = "BUTTON"
    THEN (IF in.exists THEN <<Call("queue.Handler")>> ELSE <<>>)
         \o Unhandled \o <<WriteHeader("204")>>
    ELSE Unhandled

\* case APPLICATION_COMMAND_AUTO_COMPLETE_TYPE, the same in both handlers.
AutoComplete(in, found) ==
    IF ~found.exists \/ ~found.command.AutoComplete
       \/ found.command.Options \in {"nil", "empty"}
    THEN <<WriteHeader("204")>>
    ELSE <<AutoCompleteHandler(found.command)>>
         \o (IF in.marshals THEN <<Write("choices")>> ELSE <<Panic>>)

\* handleDiscordWebhookRequests, from its first line to its return.
OldTrace(in) ==
    IF in.pre # "ok" THEN Preamble(in)
    ELSE IF in.Type = "PING" THEN <<Write("ping")>>
    ELSE IF in.Type = "APPLICATION_COMMAND" THEN OldCommand(in)
    ELSE IF in.Type = "MESSAGE_COMPONENT" THEN OldComponent(in)
    ELSE IF in.Type = "AUTO_COMPLETE" THEN AutoComplete(in, getCommand(commands, in))
    ELSE Unhandled

\* client.seekCommand(interaction) of the later client.
seekCommand(cmds, data) == getCommand(cmds, data)

\* The command case with lines 59 to 62 moved behind the middleware: the test
\* for direct messages comes after the call of commandMiddlewareHandler.
NewCommandMiddlewareFirst(in) ==
    LET found == seekCommand(commands, in)
        command == found.command
    IN  IF ~found.exists THEN <<Write("unknown command")>>
        ELSE <<WriteHeader("204")>>
             \o (IF in.middleware = "denies"
                 THEN <<Call("commandMiddlewareHandler")>>
                 ELSE (IF in.middleware # "nil"
                       THEN <<Call("commandMiddlewareHandler")>> ELSE <<>>)
                      \o (IF ~command.AvailableInDM /\ in.GuildID = 0
                          THEN <<WriteHeader("204")>>
                          ELSE <<SlashCommandHandler(command)>>))

\* case APPLICATION_COMMAND_INTERACTION_TYPE of handleRequest; in.middleware
\* is client.commandMiddlewareHandler: nil, or a function that lets the
\* command run, or one that does not.
NewCommand(in) ==
    LET found == seekCommand(commands, in)
        command == found.command
    IN  IF ~found.exists THEN <<Write("unknown command")>>
        ELSE <<WriteHeader("204")>>
             \o (IF ~command.AvailableInDM /\ in.GuildID = 0
                 THEN <<WriteHeader("204")>>
                 ELSE IF in.middleware = "denies"
                 THEN <<Call("commandMiddlewareHandler")>>
                 ELSE (IF in.middleware # "nil"
                       THEN <<Call("commandMiddlewareHandler")>> ELSE <<>>)
                      \o <<SlashCommandHandler(command)>>)

\* The handler tables of the later client, by interaction type: the permanent
\* handlers and the fallback handler.
PermanentTable(in) == IF in.Type = "MODAL_SUBMIT" THEN "modals" ELSE "components"
FallbackHandler(in) ==
    IF in.Type = "MODAL_SUBMIT" THEN "modalHandler" ELSE "componentHandler"

\* The request finds no permanent handler and finds a channel in the wait
\* queue: it writes the acknowledgement and sends on the channel.
Sends(in) ==
    /\ in.handler = "new"
    /\ in.pre = "ok"
    /\ in.Type \in {"MESSAGE_COMPONENT", "MODAL_SUBMIT"}
    /\ ~(in.permanent = "fn")
    /\ in.queued = "chan"

\* What handleRequest does after the send: the component case returns, the
\* modal case has no return and goes on to the fallback handler.
AfterSend(in) ==
    IF in.Type = "MESSAGE_COMPONENT" THEN <<>>
    ELSE IF in.fallback # "nil" THEN <<Call(FallbackHandler(in))>> ELSE <<>>

\* cases MESSAGE_COMPONENT_INTERACTION_TYPE and MODAL_SUBMIT_INTERACTION_TYPE
\* of handleRequest, up to the send if there is one.
NewComponent(in) ==
    IF in.permanent = "fn" THEN <<Call(PermanentTable(in))>>
    ELSE IF in.queued = "chan" THEN <<Write("acknowledge")>>
    ELSE IF in.fallback # "nil" THEN <<Call(FallbackHandler(in))>>
    ELSE <<>>

\* handleRequest, from its first line to its return or to the send.
NewTrace(in) ==
    IF in.pre # "ok" THEN Preamble(in)
    ELSE IF in.Type = "PING" THEN <<Write("ping")>>
    ELSE IF in.Type = "APPLICATION_COMMAND" THEN NewCommand(in)
    ELSE IF in.Type \in {"MESSAGE_COMPONENT", "MODAL_SUBMIT"} THEN NewComponent(in)
    ELSE IF in.Type = "AUTO_COMPLETE" THEN AutoComplete(in, seekCommand(commands, in))
    ELSE <<>>

\* CreateClient(options).
CreateClient(opts) ==
    /\ phase = "start"
    /\ phase' = "registering"
    /\ options' = opts
    /\ commands' = [n \in Names |-> NoTree]
    /\ UNCHANGED <<now, buttonVars, restVars, handOffVars, registrations, lastRegister, req>>

\* ListenAndServe(address): the server starts to hand requests to the handler.
ListenAndServe ==
    /\ phase = "registering"
    /\ phase' = "serving"
    /\ UNCHANGED <<now, buttonVars, restVars, handOffVars, commands, registrations, lastRegister,
                   options, req>>

\* The server receives a webhook request and starts the handler for it.
Receive(in) ==
    /\ phase = "serving"
    /\ req.pc = "idle"
    /\ req' = [pc |-> "received", in |-> in, trace |-> <<>>]
    /\ UNCHANGED <<now, buttonVars, restVars, handOffVars, commands, phase, registrations,
                   lastRegister, options>>

\* handleDiscordWebhookRequests(w, r) serves the request.
handleDiscordWebhookRequests ==
    /\ req.pc = "received"
    /\ req.in.handler = "old"
    /\ req' = [req EXCEPT !.pc = "done", !.trace = OldTrace(req.in)]
    /\ UNCHANGED <<now, buttonVars, restVars, handOffVars, commands, phase, registrations,
                   lastRegister, options>>

\* handleRequest(w, r) serves the request, up to its return or up to the
\* send on the channel of a waiter.
handleRequest ==
    /\ req.pc = "received"
    /\ req.in.handler = "new"
    /\ req' = [req EXCEPT !.pc = IF Sends(req.in) THEN "send" ELSE "done",
                          !.trace = NewTrace(req.in)]
    /\ UNCHANGED <<now, buttonVars, restVars, handOffVars, commands, phase, registrations,
                   lastRegister, options>>

\* signalChannel <- &itx: the send completes when a waiter receives on the
\* channel, and the handler runs on to its return.
Send ==
    /\ req.pc = "send"
    /\ req.in.receiving
    /\ req' = [req EXCEPT !.pc = "done",
                          !.trace = req.trace \o <<Call("signalChannel")>>
                                    \o AfterSend(req.in)]
    /\ UNCHANGED <<now, buttonVars, restVars, handOffVars, commands, phase, registrations,
                   lastRegister, options>>

(***************************************************************************)
(* The hand-off of handleRequest: the lookup of the custom id in the wait  *)
(* queue under client.qMu and the send on the channel found there, for     *)
(* components (queuedComponents) and modals (queuedModals) alike.  The     *)
(* waiter is the goroutine that arms the keys and receives on the channel: *)
(* it arms a list of keys with one channel, takes at most one event, and   *)
(* removes its keys when it has its event or when its timeout elapses,     *)
(* whichever comes first.  It writes the registry under the write lock,    *)
(* each time in one step.                                                  *)
(***************************************************************************)
\* No channel under the key; the keys map to the one waiter's channel.
NoChannel == "none"
TheChannel == "chan"

\* The registry without the keys of ids.
WithoutKeys(ids) ==
    [k \in Keys |-> IF \E i \in DOMAIN ids : ids[i] = k THEN NoChannel
                    ELSE queuedComponents[k]]

\* The waiter arms the keys of ids with a channel of capacity cap.
Arm(ids, cap) ==
    /\ waiter.pc = "idle"
    /\ qReaders = 0
    /\ queuedComponents' =
          [k \in Keys |-> IF \E i \in DOMAIN ids : ids[i] = k THEN TheChannel
                          ELSE queuedComponents[k]]
    /\ waiter' = [waiter EXCEPT !.pc = "waiting", !.CustomIds = ids, !.cap = cap]
    /\ UNCHANGED <<now, buttonVars, restVars, routerVars, qReaders, signalChannel, itx>>

\* The waiter takes an event out of the buffer of its channel.
ReceiveBuffered ==
    /\ waiter.pc = "waiting"
    /\ signalChannel # <<>>
    /\ waiter' = [waiter EXCEPT !.pc = "received", !.got = Head(signalChannel)]
    /\ signalChannel' = Tail(signalChannel)
    /\ UNCHANGED <<now, buttonVars, restVars, routerVars, queuedComponents, qReaders, itx>>

\* The waiter has its event: it removes its keys and is done.
Teardown ==
    /\ waiter.pc = "received"
    /\ qReaders = 0
    /\ queuedComponents' = WithoutKeys(waiter.CustomIds)
    /\ waiter' = [waiter EXCEPT !.pc = "done"]
    /\ UNCHANGED <<now, buttonVars, restVars, routerVars, qReaders, signalChannel, itx>>

\* The timeout of the waiter elapses before an event has come: it removes
\* its keys and is done.
Expire ==
    /\ waiter.pc = "waiting"
    /\ qReaders = 0
    /\ queuedComponents' = WithoutKeys(waiter.CustomIds)
    /\ waiter' = [waiter EXCEPT !.pc = "done", !.got = "timeout"]
    /\ UNCHANGED <<now, buttonVars, restVars, routerVars, qReaders, signalChannel, itx>>

\* part_000:86, 146: client.qMu.RLock(), for a request that carries custom
\* id key and found no permanent handler.
QRLock(q) ==
    /\ itx[q].pc = "idle"
    /\ \E key \in Keys : itx' = [itx EXCEPT ![q].pc = "rlocked", ![q].CustomID = key]
    /\ qReaders' = qReaders + 1
    /\ UNCHANGED <<now, buttonVars, restVars, routerVars, queuedComponents, waiter,
                   signalChannel>>

\* part_000:87, 147: signalChannel, available := client.queuedComponents[id].
LookupQueued(q) ==
    /\ itx[q].pc = "rlocked"
    /\ itx' = [itx EXCEPT ![q].pc = "looked",
                          ![q].signalChannel = queuedComponents[itx[q].CustomID]]
    /\ UNCHANGED <<now, buttonVars, restVars, routerVars, queuedComponents, qReaders,
                   waiter, signalChannel>>

\* part_000:88-89, 148-149: client.qMu.RUnlock() and the test of the result.
QRUnlock(q) ==
    /\ itx[q].pc = "looked"
    /\ qReaders' = qReaders - 1
    /\ itx' = [itx EXCEPT ![q].pc = IF itx[q].signalChannel # NoChannel THEN "ack"
                                    ELSE "fallback"]
    /\ UNCHANGED <<now, buttonVars, restVars, routerVars, queuedComponents, waiter,
                   signalChannel>>

\* part_000:90-91, 150-151: the acknowledgement is written.
Acknowledge(q) ==
    /\ itx[q].pc = "ack"
    /\ itx' = [itx EXCEPT ![q].pc = "send"]
    /\ UNCHANGED <<now, buttonVars, restVars, routerVars, queuedComponents, qReaders,
                   waiter, signalChannel>>

\* part_000:92-93, 152-160: signalChannel <- &itx on a channel whose
\* receiver is waiting: the waiter has the event, the handler returns.
HandOff(q) ==
    /\ itx[q].pc = "send"
    /\ waiter.pc = "waiting"
    /\ signalChannel = <<>>
    /\ waiter' = [waiter EXCEPT !.pc = "received", !.got = q]
    /\ itx' = [itx EXCEPT ![q].pc = "done"]
    /\ UNCHANGED <<now, buttonVars, restVars, routerVars, queuedComponents, qReaders,
                   signalChannel>>

\* part_000:92-93, 152-160: signalChannel <- &itx on a channel with room in
\* its buffer: the event is in the buffer, the handler returns.
HandOffBuffered(q) ==
    /\ itx[q].pc = "send"
    /\ Len(signalChannel) < waiter.cap
    /\ signalChannel' = Append(signalChannel, q)
    /\ itx' = [itx EXCEPT ![q].pc = "done"]
    /\ UNCHANGED <<now, buttonVars, restVars, routerVars, queuedComponents, qReaders,
                   waiter>>

\* part_000:96-101, 155-160: nothing was found; the fallback handler, return.
Fallback(q) ==
    /\ itx[q].pc = "fallback"
    /\ itx' = [itx EXCEPT ![q].pc = "done"]
    /\ UNCHANGED <<now, buttonVars, restVars, routerVars, queuedComponents, qReaders,
                   waiter, signalChannel>>

(***************************************************************************)
(* The initial state: CreateClient and NewCustomRest.                      *)
(*                                                                         *)
(* client.queuedButtons starts as an allocated map without entries.  The   *)
(* struct literal of CreateClient (client.go:208-215) has no queuedButtons *)
(* field: in the program as it stands the map is nil and the first insert  *)
(* of CreateButtonMenu (client.go:52) panics.  The wait queue is modelled  *)
(* with the map allocated, which is what CreateButtonMenu takes for        *)
(* granted.                                                                *)
(***************************************************************************)
Init ==
    /\ now = 1
    /\ queuedButtons = [k \in Keys |-> NoMenu]
    /\ menu = [m \in Menus |-> [pc |-> "idle", CustomIds |-> <<>>, timeout |-> 0, idx |-> 1]]
    /\ handlerLog = [m \in Menus |-> <<>>]
    /\ click = [c \in Clicks |-> [pc |-> "idle", key |-> "k1", queue |-> NoMenu, idx |-> 1]]
    /\ lockedTo = ZeroTime
    /\ readers = 0
    /\ writer = "none"
    /\ call = [r \in Callers |->
                 [pc |-> "idle", payload |-> "nil", valid |-> TRUE, gate |-> ZeroTime,
                  rlocks |-> 0, i |-> 1, attempts |-> 0, calls |-> 0, hist |-> <<>>,
                  retryAfter |-> 0, wakeAt |-> ZeroTime, after |-> "none",
                  result |-> NoResult]]
    /\ commands = [n \in Names |-> NoTree]
    /\ phase = "start"
    /\ registrations = 0
    /\ lastRegister = [op |-> "none", command |-> NoCommand, root |-> ""]
    /\ options = [InteractionHandler |-> "nil", PreCommandExecutionHandler |-> "nil"]
    /\ req = [pc |-> "idle", in |-> NoInput, trace |-> <<>>]
    /\ queuedComponents = [k \in Keys |-> NoChannel]
    /\ qReaders = 0
    /\ waiter = [pc |-> "idle", CustomIds |-> <<>>, cap |-> 0, got |-> "none"]
    /\ signalChannel = <<>>
    /\ itx = [q \in Requests |-> [pc |-> "idle", CustomID |-> "k1", signalChannel |-> NoChannel]]

NextButtons ==
    \/ TimerTick
    \/ \E m \in Menus : CreateButtonMenu(m)
    \/ \E m \in Menus : InsertKey(m)
    \/ \E m \in Menus : StartTimer(m)
    \/ \E m \in Menus : TimerFire(m)
    \/ \E m \in Menus : ExpireDelete(m)
    \/ \E m \in Menus : ExpireNotify(m)
    \/ \E c \in Clicks : Lookup(c)
    \/ \E c \in Clicks : Deliver(c)
    \/ \E c \in Clicks : DeleteKey(c)
    \/ \E c \in Clicks : Respond(c)

SpecButtons == Init /\ [][NextButtons]_vars

\* The steps of the goroutine running Request for caller r.
CallerStep(r) ==
    \/ Enter(r)
    \/ Exhausted(r)
    \/ MarshalFail(r)
    \/ NewRequestFail(r)
    \/ Do(r)
    \/ Response(r)
    \/ RateLimited(r)
    \/ Lock(r)
    \/ Backoff(r)
    \/ Wake(r)

NextRest ==
    \/ Tick
    \/ \E r \in Callers : Request(r)
    \/ \E r \in Callers : CallerStep(r)

SpecRest == Init /\ [][NextRest]_vars

\* The scheduler runs every goroutine that can run, and every underlying HTTP
\* call returns.
FairSpecRest == SpecRest /\ \A r \in Callers : WF_vars(CallerStep(r))

\* SetLockout and ClearLockout wait for the read locks to be released.  Every
\* caller that reaches them still holds the read lock it took in Enter, so
\* they are never enabled and are no part of NextRest.
NextRestAll ==
    \/ NextRest
    \/ \E r \in Callers : SetLockout(r)
    \/ \E r \in Callers : ClearLockout(r)

SpecRestAll == Init /\ [][NextRestAll]_vars

LockoutNeverGranted ==
    /\ lockedTo = ZeroTime
    /\ \A r \in Callers : ~LockGranted(r)

NextRouter ==
    \/ \E opts \in ClientOptions : CreateClient(opts)
    \/ \E command \in RootCommands : RegisterCommand(command)
    \/ \E subCommand \in SubCommands, rootCommandName \in Names :
          RegisterSubCommand(subCommand, rootCommandName)
    \/ ListenAndServe
    \/ \E in \in Inputs : Receive(in)
    \/ handleDiscordWebhookRequests
    \/ handleRequest
    \/ Send

SpecRouter == Init /\ [][NextRouter]_vars

\* The steps of the goroutine that serves request q.
RequestStep(q) ==
    \/ QRLock(q)
    \/ LookupQueued(q)
    \/ QRUnlock(q)
    \/ Acknowledge(q)
    \/ HandOff(q)
    \/ HandOffBuffered(q)
    \/ Fallback(q)

\* The steps of the waiter once it has armed its keys.
WaiterStep ==
    \/ ReceiveBuffered
    \/ Teardown
    \/ Expire

NextHandOff ==
    \/ \E ids \in KeyLists, cap \in Capacities : Arm(ids, cap)
    \/ WaiterStep
    \/ \E q \in Requests : RequestStep(q)

SpecHandOff == Init /\ [][NextHandOff]_vars

\* The scheduler runs every goroutine that can run; the waiter's timeout
\* elapses unless its event comes first.
FairSpecHandOff ==
    SpecHandOff /\ WF_vars(WaiterStep) /\ \A q \in Requests : WF_vars(RequestStep(q))

(***************************************************************************)
(* The wait queue: claims C1 to C4, under SpecButtons.                     *)
(***************************************************************************)
\* The positions of the calls of m's handler with argument arg.
CallsWith(m, arg) == {n \in 1 .. Len(handlerLog[m]) : handlerLog[m][n].arg = arg}

\* An event reached m's handler before m's timeout had elapsed.
DeliveredInTime(m) ==
    \E n \in CallsWith(m, "event") : ~handlerLog[m][n].elapsed

\* Every request that found menu m has gone through its teardown.
Settled(m) ==
    \A c \in Clicks : click[c].queue = m => click[c].pc \in {"respond", "done"}

\* Menu m is over: its timer has run to the end and no request still holds it.
Over(m) == menu[m].pc = "done" /\ Settled(m)

Done(r) == call[r].pc = "done"
First(r) == call[r].hist[1]
Last(r) == call[r].hist[Len(call[r].hist)]

\* C5: the terminal "failed ... 3 times" error is returned only after three
\* underlying calls were made and left unfinished (so that a third call that
\* succeeds after two unfinished ones yields its success).
C5_ThreeAttempts ==
    \A r \in Callers :
        (Done(r) /\ call[r].result.err.kind = "exhausted" /\ call[r].valid)
            => call[r].calls = 3

ReceivesOther(r) ==
    /\ call[r].pc = "http"
    /\ Len(call'[r].hist) = Len(call[r].hist) + 1
    /\ call'[r].hist[Len(call'[r].hist)].kind = "response"
    /\ call'[r].hist[Len(call'[r].hist)].status # 429

\* What such a step does, apart from the result: Request returns without a
\* further underlying call (after exactly one when it is the first response)
\* and the deadline is left as it is.
FinishesAtOnce(r) ==
    /\ call'[r].pc = "done"
    /\ call'[r].calls = Len(call'[r].hist)
    /\ lockedTo' = lockedTo

\* C7, as claimed: 204 yields success with an empty body, any other status
\* below 400 success with the response body, a status >= 400 a failure
\* carrying the status and the body.
C7_OtherStatusFinishes ==
    [][\A r \in Callers :
          ReceivesOther(r) =>
             LET o == call'[r].hist[Len(call'[r].hist)]
             IN  /\ FinishesAtOnce(r)
                 /\ call'[r].result =
                       IF o.status = 204 THEN [raw |-> "nil", err |-> NoError]
                       ELSE IF o.status < 400 THEN [raw |-> o.body, err |-> NoError]
                       ELSE [raw |-> "nil",
                             err |-> [kind |-> "status", status |-> o.status, body |-> o.body]]]_vars

\* C7, amended: the same, provided the body of a response other than 204 can
\* be read; when reading it fails, Request returns a failure naming the read
\* error, whatever the status (and still at once).
C7_OtherStatusFinishesIfBodyRead ==
    [][\A r \in Callers :
          ReceivesOther(r) =>
             LET o == call'[r].hist[Len(call'[r].hist)]
             IN  /\ FinishesAtOnce(r)
                 /\ call'[r].result =
                       IF o.status = 204 THEN [raw |-> "nil", err |-> NoError]
                       ELSE IF ~o.readOk THEN [raw |-> "nil", err |-> Failure("readbody")]
                       ELSE IF o.status < 400 THEN [raw |-> o.body, err |-> NoError]
                       ELSE [raw |-> "nil",
                             err |-> [kind |-> "status", status |-> o.status, body |-> o.body]]]_vars

\* A first response with status 400 and a readable body has been turned into
\* the failure carrying both, after one underlying call.
C7_Witness ==
    \E r \in Callers :
        /\ Done(r)
        /\ call[r].calls = 1
        /\ call[r].hist # <<>> /\ First(r).status = 400 /\ First(r).readOk
        /\ call[r].result.err = [kind |-> "status", status |-> 400, body |-> First(r).body]

\* C8: a Request that starts while the deadline is set and in the future has
\* no underlying call in flight before that deadline has passed; a Request
\* that starts while the deadline is unset gets past the rate-limit gate (and
\* so to its first call) without waiting for anything.
C8_GateWaitsOnlyForDeadline ==
    /\ [](\A r \in Callers : call[r].pc = "http" => now >= call[r].gate)
    /\ \A r \in Callers :
          (call[r].pc = "enter" /\ lockedTo = ZeroTime) ~> (call[r].pc # "enter")

\* Caller r triggered a lockout and is waiting out its deadline, still ahead.
WaitingOut(r) ==
    call[r].pc = "sleep" /\ call[r].after = "relock" /\ call[r].wakeAt > now

C10_RequestReturns ==
    \A r \in Callers : (call[r].pc # "idle") ~> Done(r)

(***************************************************************************)
(* The webhook handlers: claims C11 to C15 and C17, under SpecRouter.      *)
(***************************************************************************)
\* The handler has returned for a request that passed the checks of method,
\* signature and body and whose results marshalled.
Served ==
    /\ req.pc = "done"
    /\ req.in.pre = "ok"
    /\ \A i \in DOMAIN req.trace : req.trace[i].kind # "panic"

\* The handlers that get the http.ResponseWriter and so write the response
\* themselves (itx.w = w).
Owners == {"components", "componentHandler", "modals", "modalHandler"}

\* The positions in the trace where the response is written: by the handler
\* itself or by a handler that owns the response.
ResponseWrites ==
    {i \in DOMAIN req.trace :
        \/ req.trace[i].kind \in {"Write", "WriteHeader", "Error"}
        \/ req.trace[i].kind = "Call" /\ req.trace[i].what \in Owners}

\* The positions in the trace where the handler named h is called.
CallsOf(h) ==
    {i \in DOMAIN req.trace : req.trace[i].kind = "Call" /\ req.trace[i].what = h}

\* The registry entry the interaction names: (root, subcommand) when its
\* first option is marked as a subcommand, (name, "-") otherwise.
Named == commands[req.in.Name].tree[IF req.in.sub # "" THEN req.in.sub ELSE RootKey]

\* C11: a command request that was served has had its response written
\* exactly once: not twice, and not zero times.
C11_CommandRespondsOnce ==
    (Served /\ req.in.Type = "APPLICATION_COMMAND") => Cardinality(ResponseWrites) = 1

\* A served command request that names a registered command which is not
\* available in direct messages, and that carries no guild.
DirectMessageRefused ==
    /\ Served
    /\ req.in.Type = "APPLICATION_COMMAND"
    /\ Named.present
    /\ ~Named.AvailableInDM
    /\ req.in.GuildID = 0

\* C12: a command that is not available in direct messages, asked for without
\* a guild, is answered with status 204 and no body, and no handler is called
\* for it: not the pre-handler (the middleware), not the command's handler.
C12_DMCheckBeforePreHandler ==
    DirectMessageRefused =>
        /\ req.trace # <<>>
        /\ \A i \in DOMAIN req.trace : req.trace[i] = WriteHeader("204")

\* Such a request was served by a client that has a middleware.
C12_Witness ==
    DirectMessageRefused /\ req.in.handler = "new" /\ req.in.middleware # "nil"

\* The positions in the trace where the event is handed to the handler that
\* waits for it.
HandOffs == CallsOf("queue.Handler") \cup CallsOf("signalChannel")

Permitted ==
    /\ Served
    /\ req.in.Type = "APPLICATION_COMMAND"
    /\ Named.present
    /\ (Named.AvailableInDM \/ req.in.GuildID # 0)

\* C14: with a pre-handler in the client's options, a permitted command is
\* first shown to the pre-handler.  If the pre-handler answers, its payload is
\* written and the command's handler is not called; if it declines, status
\* 204 is written and then the command's handler is called.
C14_PreHandlerDecides ==
    (Permitted /\ req.in.handler = "old") =>
        /\ options.PreCommandExecutionHandler = "answers" =>
              req.trace = <<Call("preCommandExecutionHandler"), Write("content")>>
        /\ options.PreCommandExecutionHandler = "declines" =>
              req.trace = <<Call("preCommandExecutionHandler"), WriteHeader("204"),
                            SlashCommandHandler(Named)>>

\* C15: a command request whose path (name, "-"), or (root, subcommand) when
\* its first option is marked as a subcommand, is not in the registry is
\* answered with the "unknown command" payload and nothing else happens: no
\* pre-handler and no command handler is called.
C15_UnknownCommand ==
    (Served /\ req.in.Type = "APPLICATION_COMMAND" /\ ~Named.present) =>
        req.trace = <<Write("unknown command")>>

\* A request was served that named a subcommand which is not registered,
\* under a root that is.
C15_Witness ==
    /\ Served
    /\ req.in.Type = "APPLICATION_COMMAND"
    /\ req.in.sub # ""
    /\ ~Named.present
    /\ commands[req.in.Name].present

\* The calls of handlers the request has led to, in order.
CallsMade == SelectSeq(req.trace, LAMBDA e : e.kind = "Call")

\* The one handler the priority picks for the request: the permanent handler
\* of its custom id, else the waiter armed for it, else the fallback handler.
HandlerByPriority ==
    IF req.in.permanent = "fn" THEN <<Call(PermanentTable(req.in))>>
    ELSE IF req.in.queued = "chan" THEN <<Call("signalChannel")>>
    ELSE IF req.in.fallback # "nil" THEN <<Call(FallbackHandler(req.in))>>
    ELSE <<>>

\* C17: a component or modal request leads to the call of the one handler
\* the priority picks and of no other; a hand-off to a waiter is not
\* followed by the fallback handler.
C17_OneHandlerByPriority ==
    (/\ Served
     /\ req.in.handler = "new"
     /\ req.in.Type \in {"MESSAGE_COMPONENT", "MODAL_SUBMIT"}) =>
        CallsMade = HandlerByPriority

(***************************************************************************)
(* The command registry: claim C16, under SpecRouter.                      *)
(***************************************************************************)
\* getCommand finds command in cmds under (name, sub); sub is "" for the
\* path (name, "-").  The Options of a root command may have gone from nil
\* to the empty slice.
Resolves(cmds, name, sub, command) ==
    LET found == getCommand(cmds, [Name |-> name, sub |-> sub])
    IN  /\ found.exists
        /\ found.command = command \/ found.command = WithOptions(command)

\* Every entry of the registry but the one under (name, key) is as it was.
OthersKept(name, key) ==
    \A n \in Names :
        /\ n # name => commands'[n] = commands[n]
        /\ \A k \in TreeKeys \ {key} : commands'[n].tree[k] = commands[n].tree[k]

\* What C16 says of a call of RegisterCommand or RegisterSubCommand.
Registers ==
    LET r == lastRegister'
    IN  IF r.op = "RegisterCommand"
        THEN IF commands[r.root].present
             THEN phase' = "panicked" /\ commands' = commands
             ELSE /\ phase' = phase
                  /\ Resolves(commands', r.root, "", r.command)
                  /\ OthersKept(r.root, RootKey)
        ELSE IF ~commands[r.root].present
             THEN phase' = "panicked" /\ commands' = commands
             ELSE /\ phase' = phase
                  /\ Resolves(commands', r.root, r.command.Name, r.command)
                  /\ OthersKept(r.root, r.command.Name)

\* C16: RegisterCommand with the name of a registered root and
\* RegisterSubCommand under a root that is not registered panic and leave the
\* registry as it was; any other RegisterCommand makes the command
\* resolvable under (name, "-"), any other RegisterSubCommand makes it
\* resolvable under (root, its name), and no other entry changes.
C16_Registration == [][registrations' # registrations => Registers]_vars

\* RegisterCommand was called with the name of a root that was registered.
C16_Witness ==
    /\ phase = "panicked"
    /\ lastRegister.op = "RegisterCommand"
    /\ commands[lastRegister.root].present

(***************************************************************************)
(* The locks of Rest.Request: claim C18, under SpecRest.                   *)
(***************************************************************************)
\* C18: a caller that is in its underlying HTTP call or asleep holds no read
\* lock and does not hold or await the write lock.
C18_NoLockWhileCallingOrSleeping ==
    \A r \in Callers :
        call[r].pc \in {"http", "sleep"} => call[r].rlocks = 0 /\ writer # r

WritesRegistry(m) ==
    /\ menu[m].pc \in {"insert", "expire"}
    /\ menu[m].idx <= Len(menu[m].CustomIds)

\* The next statement of request c writes the registry: delete.
RequestWritesRegistry(c) == click[c].pc = "delete"

C21_HandOffCompletes ==
    \A q \in Requests : (itx[q].pc = "send") ~> (itx[q].pc = "done")

=============================================================================
